---------------------------- MODULE Spec2Model ----------------------------
(***************************************************************************)
(* A model of the web crawler in src/crawler.py: the Crawler class (seed   *)
(* loading, robots.txt cache, fetch with retries, link extraction, scope   *)
(* policy, persistence) and the traversal loop of crawl_seed / run.        *)
(*                                                                         *)
(* Strings are sequences of one-character strings, so that the string      *)
(* operations of the code (lower, startswith, rstrip, "in", split) are     *)
(* computed and not assumed.                                               *)
(***************************************************************************)
EXTENDS Integers, Sequences, FiniteSets, TLC

(***************************************************************************)
(* Python string operations                                                *)
(***************************************************************************)

UpperChars == <<"A","B","C","D","E","F","G","H","I","J","K","L","M",
                "N","O","P","Q","R","S","T","U","V","W","X","Y","Z">>
LowerChars == <<"a","b","c","d","e","f","g","h","i","j","k","l","m",
                "n","o","p","q","r","s","t","u","v","w","x","y","z">>

\* str.lower() on one character
LowerChar(c) ==
  IF \E i \in 1..Len(UpperChars) : UpperChars[i] = c
    THEN LowerChars[CHOOSE i \in 1..Len(UpperChars) : UpperChars[i] = c]
    ELSE c

\* str.lower()
Lower(s) == [i \in 1..Len(s) |-> LowerChar(s[i])]

\* str.startswith(prefix)
StartsWith(s, prefix) ==
  /\ Len(prefix) <= Len(s)
  /\ \A i \in 1..Len(prefix) : s[i] = prefix[i]

\* "sub in s"
Contains(sub, s) ==
  \E k \in 0..(Len(s) - Len(sub)) :
     \A i \in 1..Len(sub) : s[k + i] = sub[i]

\* str.rstrip(c): the longest prefix of s that does not end in c
RStrip(s, c) ==
  LET keep == {n \in 0..Len(s) : (n = 0 \/ s[n] # c) /\ \A i \in (n+1)..Len(s) : s[i] = c}
  IN  SubSeq(s, 1, CHOOSE n \in keep : TRUE)

\* the first index >= from at which one of the characters cs occurs in s,
\* Len(s) + 1 when there is none
FindAny(s, cs, from) ==
  LET hits == {i \in from..Len(s) : s[i] \in cs}
  IN  IF hits = {} THEN Len(s) + 1
      ELSE CHOOSE i \in hits : \A j \in hits : i <= j

\* s.split('#')[0]
BeforeHash(s) == SubSeq(s, 1, FindAny(s, {"#"}, 1) - 1)

(***************************************************************************)
(* urllib.parse.urlparse, for URLs of the form scheme://netloc/path?q#f    *)
(***************************************************************************)

urlparse(url) ==
  LET colon    == FindAny(url, {":"}, 1)
      hasNet   == /\ colon + 2 <= Len(url)
                  /\ url[colon + 1] = "/"
                  /\ url[colon + 2] = "/"
      netStart == colon + 3
      netEnd   == FindAny(url, {"/", "?", "#"}, netStart)
      pathEnd  == FindAny(url, {"?", "#"}, netEnd)
  IN  IF hasNet
        THEN [scheme |-> SubSeq(url, 1, colon - 1),
              netloc |-> SubSeq(url, netStart, netEnd - 1),
              path   |-> SubSeq(url, netEnd, pathEnd - 1)]
        ELSE [scheme |-> <<>>, netloc |-> <<>>,
              path   |-> SubSeq(url, 1, FindAny(url, {"?", "#"}, 1) - 1)]


\* urllib.parse.urljoin(base, href) for the href forms the pages of the model
\* use: empty, fragment-only, absolute (with a scheme), host-relative (/p)
\* and relative to the directory of the base path; no dot-segment removal
urljoin(base, href) ==
  LET b       == urlparse(base)
      origin  == b.scheme \o <<":", "/", "/">> \o b.netloc
      noFrag  == BeforeHash(base)
      slashes == {i \in 1..Len(b.path) : b.path[i] = "/"}
      dirEnd  == IF slashes = {} THEN 0
                 ELSE CHOOSE i \in slashes : \A j \in slashes : j <= i
  IN  IF href = <<>> THEN base
      ELSE IF href[1] = "#" THEN noFrag \o href
      ELSE IF urlparse(href).scheme # <<>> THEN href
      ELSE IF href[1] = "/" THEN origin \o href
      ELSE origin \o (IF dirEnd = 0 THEN <<"/">> ELSE SubSeq(b.path, 1, dirEnd)) \o href

\* os.path.splitext(path)[1]: from the last dot of the last path component,
\* unless that dot leads the component
splitext(path) ==
  LET slashes == {i \in 1..Len(path) : path[i] = "/"}
      sep     == IF slashes = {} THEN 0
                 ELSE CHOOSE i \in slashes : \A j \in slashes : j <= i
      dots    == {i \in (sep + 1)..Len(path) : path[i] = "."}
      dot     == IF dots = {} THEN 0
                 ELSE CHOOSE i \in dots : \A j \in dots : j <= i
      lead    == \A i \in (sep + 1)..(dot - 1) : path[i] = "."
  IN  IF dot = 0 \/ lead THEN <<>> ELSE SubSeq(path, dot, Len(path))

(***************************************************************************)
(* Program constants                                                       *)
(***************************************************************************)

\* for attempt in range(3)
MaxAttempts == 3
\* a backoff that also sleeps after the last attempt
LastAttempt_SleepsAfterLast == MaxAttempts
\* if attempt < 2: sleep
LastAttempt == 2
\* time.sleep(2 ** attempt)
BackoffBase == 2

\* ['.pdf', '.doc', '.docx']
FILE_EXTS == { <<".","p","d","f">>, <<".","d","o","c">>, <<".","d","o","c","x">> }

TEXT_HTML == <<"t","e","x","t","/","h","t","m","l">>
EXT_BIN   == <<".","b","i","n">>
EXT_HTML  == <<".","h","t","m","l">>

\* any(ext in url.lower() for ext in ['.pdf', '.doc', '.docx'])
is_file_url(url) == \E ext \in FILE_EXTS : Contains(ext, Lower(url))

\* 'text/html' in content_type
is_html_type(content_type) == Contains(TEXT_HTML, content_type)

(***************************************************************************)
(* Scope policy                                                            *)
(***************************************************************************)

\* a scope check that forgets the path prefix
should_follow_HostOnly(url, seed_url) ==
  urlparse(url).netloc = urlparse(seed_url).netloc

\* a scope check that takes the seed path as a prefix of path segments
should_follow_Segments(url, seed_url) ==
  LET url_path         == urlparse(url).path
      seed_path_prefix == RStrip(urlparse(seed_url).path, "/")
  IN  /\ urlparse(url).netloc = urlparse(seed_url).netloc
      /\ \/ seed_path_prefix = <<>>
         \/ /\ StartsWith(url_path, seed_path_prefix)
            /\ \/ Len(url_path) = Len(seed_path_prefix)
               \/ url_path[Len(seed_path_prefix) + 1] = "/"

should_follow(url, seed_url) ==
  LET url_parsed       == urlparse(url)
      seed_parsed      == urlparse(seed_url)
      seed_path_prefix == RStrip(seed_parsed.path, "/")
  IN  IF url_parsed.netloc # seed_parsed.netloc THEN FALSE
      ELSE IF seed_path_prefix = <<>> \/ seed_path_prefix = <<"/">> THEN TRUE
      ELSE IF ~StartsWith(url_parsed.path, seed_path_prefix) THEN FALSE
      ELSE TRUE

(***************************************************************************)
(* Link extraction.  A page body is the sequence of the href values of its *)
(* anchors, in document order.                                             *)
(***************************************************************************)

\* a link extraction that keeps the fragments
parse_links_KeepFragment(html_content, base_url) ==
  LET resolved == { urljoin(base_url, html_content[i]) : i \in 1..Len(html_content) }
  IN  { absolute_url \in resolved : absolute_url # <<>> }

parse_links(html_content, base_url) ==
  LET resolved == { BeforeHash(urljoin(base_url, html_content[i])) :
                      i \in 1..Len(html_content) }
  IN  { absolute_url \in resolved : absolute_url # <<>> }

(***************************************************************************)
(* Bounds of the model                                                     *)
(***************************************************************************)

\* the largest --depth the model runs with
MaxDepthArg == 2
\* the largest --max-pages the model runs with (0 is "unlimited")
MaxPagesArg == 2
\* the most failures of the file system (in save_raw's write, in log_metadata)
\* in one run
MaxIoFaults == 1

(***************************************************************************)
(* The web the model crawls: URLs, pages, responses, robots.txt documents  *)
(***************************************************************************)

HTTP   == <<"h","t","t","p",":","/","/">>
U_DOCS == HTTP \o <<"h","/","d","/">>
U_X    == HTTP \o <<"h","/","d","/","x">>
U_Y    == HTTP \o <<"h","/","d","/","y">>
U_PDF  == HTTP \o <<"h","/","d","/","a",".","P","D","F">>
U_BLOG == HTTP \o <<"h","/","b">>
U_O    == HTTP \o <<"o">>
U_OZ   == HTTP \o <<"o","/","z">>

NoUrl == <<>>

\* page bodies, as the href values of their anchors
PAGE_DOCS  == << <<"/","d","/","x">>, <<"/","b">>, U_OZ >>
PAGE_FILES == << <<"x">>, <<"a",".","P","D","F">> >>
PAGE_BACK  == << <<"#","t">>, <<"/","d","/">>, <<"a",".","P","D","F">>, <<"y">> >>
PAGE_O     == << <<"/","z">>, U_X >>
PAGE_NONE  == << >>

CT_HTML       == TEXT_HTML
CT_HTML_UPPER == <<"T","e","x","t","/","H","T","M","L">>
CT_PNG        == <<"i","m","a","g","e","/","p","n","g">>

\* what one session.get can do: return a response or raise
Response(status, ctype, body) ==
  [exc |-> "", status_code |-> status, content_type |-> ctype, content |-> body]
Raises(kind) ==
  [exc |-> kind, status_code |-> 0, content_type |-> <<>>, content |-> <<>>]

\* a fetch that retries after every request error
TransientErrors_All == {"Timeout", "ConnectionError", "RequestException"}

\* the errors fetch_page retries after
TransientErrors == {"Timeout", "ConnectionError"}

\* the responses the server of the model can give for a URL
Serve(url) ==
  IF url = U_DOCS THEN {Response(200, CT_HTML, PAGE_DOCS), Response(200, CT_HTML_UPPER, PAGE_FILES)}
  ELSE IF url = U_X THEN {Response(404, CT_HTML, PAGE_BACK), Response(200, CT_PNG, PAGE_BACK)}
  ELSE IF url = U_PDF THEN {Response(200, CT_HTML, PAGE_BACK)}
  ELSE IF url = U_O THEN {Response(200, CT_HTML, PAGE_O)}
  ELSE IF url = U_OZ THEN {Response(500, CT_HTML, PAGE_NONE)}
  ELSE {Response(200, CT_HTML, PAGE_BACK)}

\* what RobotFileParser.read() can meet at a domain's /robots.txt: an error it
\* raises (URLError, decoding error), an HTTP error status it handles itself,
\* or a document, given by the path prefixes it disallows
RobotsRaise    == [raises |-> TRUE,  http_error |-> 0,   rules |-> {}]
RobotsHttp(c)  == [raises |-> FALSE, http_error |-> c,   rules |-> {}]
RobotsDoc(r)   == [raises |-> FALSE, http_error |-> 0,   rules |-> r]

RobotsOutcomes(base_url) ==
  IF base_url = HTTP \o <<"h">>
    THEN {RobotsRaise, RobotsDoc({<<"/","d","/","x">>}), RobotsHttp(503)}
    ELSE {RobotsRaise, RobotsDoc({<<"/","z">>})}

(***************************************************************************)
(* Permission cache                                                        *)
(***************************************************************************)

\* the cached None
NoParser == [none |-> TRUE, disallow_all |-> FALSE, allow_all |-> FALSE,
             last_checked |-> FALSE, rules |-> {}]

\* RobotFileParser.read(), when it does not raise
RobotFileParser_read(outcome) ==
  [none         |-> FALSE,
   disallow_all |-> outcome.http_error \in {401, 403},
   allow_all    |-> outcome.http_error >= 400 /\ outcome.http_error < 500
                      /\ outcome.http_error \notin {401, 403},
   last_checked |-> outcome.http_error = 0,
   rules        |-> outcome.rules]

\* RobotFileParser.can_fetch(useragent, url)
RobotFileParser_can_fetch(rp, url) ==
  IF rp.disallow_all THEN FALSE
  ELSE IF rp.allow_all THEN TRUE
  ELSE IF ~rp.last_checked THEN FALSE
  ELSE LET path == urlparse(url).path
           p    == IF path = <<>> THEN <<"/">> ELSE path
       IN  ~\E rule \in rp.rules : StartsWith(p, rule)

\* the cache key: f"{parsed.scheme}://{parsed.netloc}"
base_url_of(url) ==
  LET parsed == urlparse(url)
  IN  parsed.scheme \o <<":", "/", "/">> \o parsed.netloc

\* get_robots_parser: the parser (or None) for the URL's domain, the cache
\* after the call, and whether robots.txt was read
get_robots_parser(cache, url, outcome) ==
  LET base_url == base_url_of(url)
  IN  IF base_url \in DOMAIN cache
        THEN [rp |-> cache[base_url], cache |-> cache, read |-> FALSE]
        ELSE LET rp == IF outcome.raises THEN NoParser
                       ELSE RobotFileParser_read(outcome)
             IN  [rp |-> rp, cache |-> cache @@ (base_url :> rp), read |-> TRUE]

\* a check that reads robots.txt and ignores its answer
can_fetch_Ignored(cache, url, outcome) ==
  LET got == get_robots_parser(cache, url, outcome)
  IN  [allowed |-> TRUE, cache |-> got.cache, read |-> got.read]

can_fetch(cache, url, outcome) ==
  LET got == get_robots_parser(cache, url, outcome)
  IN  [allowed |-> IF ~got.rp.none THEN RobotFileParser_can_fetch(got.rp, url) ELSE TRUE,
       cache   |-> got.cache,
       read    |-> got.read]

(***************************************************************************)
(* Fetcher                                                                 *)
(***************************************************************************)

\* one entry of the trace of calls an operation makes
Event(op, url, n, ok) == [op |-> op, url |-> url, n |-> n, ok |-> ok]

\* return None, 0, "", 0
Absent(trace) ==
  [is_none |-> TRUE, content |-> <<>>, status_code |-> 0, content_type |-> <<>>,
   content_length |-> 0, trace |-> trace]

\* 2 ** n
RECURSIVE Pow2(_)
Pow2(n) == IF n = 0 THEN 1 ELSE BackoffBase * Pow2(n - 1)

\* the body of "for attempt in range(3)" from attempt on; script[attempt + 1]
\* is what session.get does on that attempt
RECURSIVE fetch_attempt(_, _, _, _)
fetch_attempt(url, script, attempt, trace) ==
  IF attempt >= MaxAttempts THEN Absent(trace)
  ELSE LET got  == script[attempt + 1]
           tr   == Append(trace, Event("get", url, attempt, got.exc = ""))
       IN  IF got.exc = ""
             THEN [is_none        |-> FALSE,
                   content        |-> got.content,
                   status_code    |-> got.status_code,
                   content_type   |-> Lower(got.content_type),
                   content_length |-> Len(got.content),
                   trace          |-> tr]
           ELSE IF got.exc \in TransientErrors
             THEN fetch_attempt(url, script, attempt + 1,
                     IF attempt < LastAttempt
                       THEN Append(tr, Event("sleep", url, Pow2(attempt), TRUE))
                       ELSE tr)
           ELSE Absent(tr)

fetch_page(url, script) == fetch_attempt(url, script, 0, <<>>)

(***************************************************************************)
(* Persistence                                                             *)
(***************************************************************************)

\* the empty string save_raw returns when the write fails
NoPath == [dir |-> "", name |-> <<>>, ext |-> <<>>]

\* the path save_raw writes to; the URL stands for its SHA-1 digest
save_path(url, is_file) ==
  IF is_file
    THEN LET ext == Lower(splitext(urlparse(url).path))
         IN  [dir |-> "raw_files", name |-> url,
              ext |-> IF ext = <<>> THEN EXT_BIN ELSE ext]
    ELSE [dir |-> "raw/date", name |-> url, ext |-> EXT_HTML]

\* save_raw under one of the outcomes of the file system: "ok", "write_error"
\* (open or write raises inside the try) or "mkdir_error" (mkdir raises, outside
\* the try).  Returns the path, the files after the call and whether it raised.
save_raw(fs, content, url, is_file, io) ==
  LET filepath == save_path(url, is_file)
  IN  IF io = "mkdir_error" THEN [raised |-> TRUE, path |-> NoPath, fs |-> fs]
      ELSE IF io = "write_error" THEN [raised |-> FALSE, path |-> NoPath, fs |-> fs]
      ELSE [raised |-> FALSE, path |-> filepath,
            fs |-> [f \in (DOMAIN fs) \cup {filepath} |->
                       IF f = filepath THEN content ELSE fs[f]]]

\* log_metadata: one record appended to index.jsonl, unless the append raises
\* (crawl_date, the clock's reading, is left out)
log_metadata(index, url, status_code, content_type, saved_path, depth, parent_url, content_length, io) ==
  LET metadata == [url            |-> url,
                   status_code    |-> status_code,
                   content_type   |-> content_type,
                   saved_path     |-> saved_path,
                   depth          |-> depth,
                   parent_url     |-> parent_url,
                   content_length |-> content_length]
  IN  IF io = "ok" THEN Append(index, metadata) ELSE index

(***************************************************************************)
(* Seed loading                                                            *)
(***************************************************************************)

Whitespace == {" ", "\t", "\n", "\r"}

\* a strip that leaves the end of the line as it is
Strip_LeadingOnly(s) ==
  LET ink == {i \in 1..Len(s) : s[i] \notin Whitespace}
  IN  IF ink = {} THEN <<>>
      ELSE SubSeq(s, CHOOSE i \in ink : \A j \in ink : i <= j, Len(s))

\* str.strip()
Strip(s) ==
  LET ink == {i \in 1..Len(s) : s[i] \notin Whitespace}
  IN  IF ink = {} THEN <<>>
      ELSE SubSeq(s, CHOOSE i \in ink : \A j \in ink : i <= j,
                     CHOOSE i \in ink : \A j \in ink : j <= i)

RECURSIVE seeds_of(_)
seeds_of(lines) ==
  IF lines = <<>> THEN <<>>
  ELSE LET line == Strip(Head(lines))
       IN  IF line # <<>> /\ ~StartsWith(line, <<"#">>)
             THEN <<line>> \o seeds_of(Tail(lines))
             ELSE seeds_of(Tail(lines))

\* read_seeds on a seeds file that can be opened or not
read_seeds(file) == IF file.readable THEN seeds_of(file.lines) ELSE <<>>

SeedsFile(lines) == [readable |-> TRUE, lines |-> lines]
MissingFile      == [readable |-> FALSE, lines |-> <<>>]

NL == <<"\n">>

\* the seeds files the model runs with
SeedFiles ==
  { SeedsFile(<< <<"#"," ","c">> \o NL, U_DOCS \o NL, NL, U_O \o NL, <<"#">> >>),
    SeedsFile(<< U_DOCS \o NL, <<" ","\t">> \o NL, <<" ">> \o U_X \o NL,
                 <<"\t","#",":">> \o NL >>),
    SeedsFile(<< U_X \o <<" ","\r">> \o NL, U_DOCS \o NL >>),
    SeedsFile(<< U_O \o NL, U_DOCS \o NL, U_DOCS >>),
    MissingFile }

(***************************************************************************)
(* The crawler's state                                                     *)
(***************************************************************************)

VARIABLES
  pc,             \* where the program is: "main", "run", "for", "crawl",
                  \* "done", "exit_1" (sys.exit(1)), "crashed" (uncaught exception)
  args,           \* the parsed command line
  seeds,          \* run: the seeds read from the file
  seed_idx,       \* run: the index of the next seed of "for seed in seeds"
  seed_url,       \* crawl_seed: its argument
  queue,          \* crawl_seed: the queue of (url, depth, parent_url)
  visited_urls,   \* Crawler.visited_urls
  robots_cache,   \* Crawler.robots_cache
  pages_crawled,  \* Crawler.pages_crawled
  index_file,     \* the lines of ./data/raw/index.jsonl
  files,          \* the files under ./data/raw and ./data/raw_files
  fetch_log,      \* history: the calls of fetch_page so far, with their results
  robots_reads,   \* history: the calls of RobotFileParser.read() so far
  ops,            \* the calls made by the last step, in order
  io_faults,      \* history: how often save_raw's write and log_metadata's
                  \* append have failed so far
  script,         \* fetch_page alone: what session.get does on each attempt
  result,         \* fetch_page alone: what it returned
  stdout,         \* the number of lines self.log has printed
  pbar,           \* Crawler.pbar
  tape,           \* history: a first run's steps, for the run that repeats it
  frontier        \* history of the current crawl_seed call: the depth of the
                  \* last entry taken from the queue, for pages and for
                  \* files, and the smallest depth at which each URL was
                  \* put in the queue

vars == <<pc, args, seeds, seed_idx, seed_url, queue, visited_urls, robots_cache,
          pages_crawled, index_file, files, fetch_log, robots_reads, ops,
          io_faults, script, result, stdout, pbar, tape, frontier>>

\* the command lines the model runs with; delays are whole seconds
DelayArgs == { <<1, 2>>, <<-1, 2>>, <<2, 1>> }

ArgSets ==
  { [seeds |-> f, depth |-> d, delay_min |-> dl[1], delay_max |-> dl[2],
     max_pages |-> m, verbose |-> FALSE] :
      f \in SeedFiles, d \in (-1)..MaxDepthArg, dl \in DelayArgs,
      m \in (-1)..MaxPagesArg }

EmptyFn == [x \in {} |-> 0]

(***************************************************************************)
(* Output: self.log and the progress bar                                   *)
(***************************************************************************)

\* "from tqdm import tqdm" succeeds
TQDM_AVAILABLE == TRUE

\* self.pbar = None
NoBar == [present |-> FALSE, total |-> 0, n |-> 0, closed |-> FALSE]

\* tqdm(total=args.max_pages, desc="Crawling")
tqdm(total) == [present |-> TRUE, total |-> total, n |-> 0, closed |-> FALSE]

\* Crawler.__init__: there is a progress bar when tqdm is installed and
\* verbose is off
NewBar == IF TQDM_AVAILABLE /\ ~args.verbose THEN tqdm(args.max_pages) ELSE NoBar

\* "if self.pbar": a tqdm object that has a total is true when the total is
\* positive
HasBar == pbar.present /\ pbar.total > 0

\* if self.pbar: self.pbar.update(1)
pbar_update == pbar' = IF HasBar THEN [pbar EXCEPT !.n = @ + 1] ELSE pbar

\* if self.pbar: self.pbar.close()
pbar_close == pbar' = IF HasBar THEN [pbar EXCEPT !.closed = TRUE] ELSE pbar

\* n calls of self.log: each prints one line when verbose is on, and nothing
\* otherwise
log(n) == stdout' = stdout + (IF args.verbose THEN n ELSE 0)

\* the calls of self.log that fetch_page makes from attempt on
RECURSIVE fetch_page_logs(_, _)
fetch_page_logs(gets, attempt) ==
  IF attempt >= MaxAttempts THEN 1
  ELSE LET got == gets[attempt + 1]
       IN  IF got.exc = "" THEN 1
           ELSE IF got.exc \in TransientErrors
             THEN 2 + fetch_page_logs(gets, attempt + 1)
           ELSE 2

(***************************************************************************)
(* A run and its repetition.  While a run is recorded, the tape takes, for *)
(* each step, what the environment gave it and what it did; while the run  *)
(* is repeated, the environment gives the same again and the tape compares *)
(* what is done.                                                           *)
(***************************************************************************)

NoTape ==
  [mode |-> "off", k |-> 1, draws |-> 0, steps |-> <<>>, same |-> TRUE,
   ended |-> <<>>]

\* a step that takes nothing from the environment
NoChoice ==
  [url |-> NoUrl, reads |-> <<>>, gets |-> <<>>, sleeps |-> <<>>, io |-> <<>>,
   order |-> <<>>]

\* what the environment gives one step of crawl_seed: the outcome of reading
\* robots.txt, what session.get does, the random delay, what the file system
\* does, and the order in which the set of links is gone through
Chose(url, waits, reads, gets, delay, io, order) ==
  [url |-> url, reads |-> reads, gets |-> gets,
   sleeps |-> IF waits THEN <<delay>> ELSE <<>>, io |-> io, order |-> order]

\* what a step does: the calls it makes and the queue it leaves
Seen == [pc |-> pc', ops |-> ops', queue |-> queue']

\* the delays of the recorded steps, in the order they were drawn
RECURSIVE Draws(_)
Draws(steps) ==
  IF steps = <<>> THEN <<>> ELSE Head(steps).choice.sleeps \o Draws(Tail(steps))

\* the environment repeats itself: robots.txt reads the same for a site, a
\* URL is served and stored the same, the links of a page come in the same
\* order, and the n-th delay drawn is the same
Agrees(c) ==
  /\ \A j \in 1..Len(tape.steps) :
       LET was == tape.steps[j].choice
       IN  /\ (c.reads # <<>> /\ was.reads # <<>>
                 /\ base_url_of(was.url) = base_url_of(c.url)) => c.reads = was.reads
           /\ (c.gets # <<>> /\ was.gets # <<>> /\ was.url = c.url) => c.gets = was.gets
           /\ (c.io # <<>> /\ was.io # <<>> /\ was.url = c.url) => c.io = was.io
           /\ (was.url = c.url
                 /\ {c.order[i] : i \in 1..Len(c.order)}
                      = {was.order[i] : i \in 1..Len(was.order)}) => c.order = was.order
  /\ (c.sleeps # <<>> /\ tape.draws < Len(Draws(tape.steps)))
        => c.sleeps[1] = Draws(tape.steps)[tape.draws + 1]

\* the tape after a step that was given c
Taped(c) ==
  CASE tape.mode = "record" ->
         tape' = [tape EXCEPT !.steps = Append(@, [choice |-> c, seen |-> Seen])]
    [] tape.mode = "replay" ->
         /\ Agrees(c)
         /\ tape' = [tape EXCEPT !.k = @ + 1,
                                 !.draws = @ + Len(c.sleeps),
                                 !.same = (/\ @
                                           /\ tape.k <= Len(tape.steps)
                                           /\ tape.steps[tape.k].seen = Seen)]
    [] OTHER -> tape' = tape

(***************************************************************************)
(* The history of one crawl_seed call                                      *)
(***************************************************************************)

NoFrontier == [popped |-> [page |-> 0, file |-> 0], made |-> EmptyFn]

\* pages and files: a URL with .pdf, .doc or .docx in it is a file
KindOf(url) == IF is_file_url(url) THEN "file" ELSE "page"

\* queue = [(seed_url, 0, None)]
Started(url) == [popped |-> [page |-> 0, file |-> 0], made |-> (url :> 0)]

\* the smaller of two depths
Least(a, b) == IF a <= b THEN a ELSE b

\* the smallest depths after the entries added are put in the queue
Made(made, added) ==
  LET urls == {added[i].url : i \in 1..Len(added)}
      least(u) == CHOOSE d \in {added[i].depth : i \in {j \in 1..Len(added) : added[j].url = u}} :
                    \A i \in 1..Len(added) : added[i].url = u => d <= added[i].depth
  IN  [u \in (DOMAIN made) \cup urls |->
         IF u \notin urls THEN made[u]
         ELSE IF u \notin DOMAIN made THEN least(u)
         ELSE Least(made[u], least(u))]

\* fetch_page alone: the URL and what session.get does on attempts 1, 2, 3
NoScript == [url |-> NoUrl, gets |-> <<>>]

Init ==
  /\ pc = "main"
  /\ args \in ArgSets
  /\ seeds = <<>>
  /\ seed_idx = 1
  /\ seed_url = NoUrl
  /\ queue = <<>>
  /\ visited_urls = {}
  /\ robots_cache = EmptyFn
  /\ pages_crawled = 0
  /\ index_file = <<>>
  /\ files = EmptyFn
  /\ fetch_log = <<>>
  /\ robots_reads = <<>>
  /\ ops = <<>>
  /\ io_faults = [save |-> 0, log |-> 0]
  /\ script = NoScript
  /\ result = Absent(<<>>)
  /\ stdout = 0
  /\ pbar = NoBar
  /\ tape = NoTape
  /\ frontier = NoFrontier

(***************************************************************************)
(* main and run                                                            *)
(***************************************************************************)

\* a validation that forgets the page budget
ArgsValid_NoPagesCheck(a) ==
  /\ ~(a.delay_min < 0 \/ a.delay_max < 0)
  /\ ~(a.delay_min > a.delay_max)
  /\ ~(a.depth < 0)

\* the four checks of main
ArgsValid(a) ==
  /\ ~(a.delay_min < 0 \/ a.delay_max < 0)
  /\ ~(a.delay_min > a.delay_max)
  /\ ~(a.depth < 0)
  /\ ~(a.max_pages < 0)

\* main: a check fails, sys.exit(1)
MainReject ==
  /\ pc = "main"
  /\ ~ArgsValid(args)
  /\ pc' = "exit_1"
  /\ ops' = <<>>
  /\ UNCHANGED <<args, seeds, seed_idx, seed_url, queue, visited_urls, robots_cache,
                 pages_crawled, index_file, files, fetch_log, robots_reads,
                 io_faults, script, result, stdout, pbar>>
  /\ UNCHANGED frontier
  /\ Taped(NoChoice)

\* main: Crawler(args), then crawler.run() up to its for loop
MainRun ==
  /\ pc = "main"
  /\ ArgsValid(args)
  /\ seeds' = read_seeds(args.seeds)
  /\ seed_idx' = 1
  /\ pc' = IF read_seeds(args.seeds) = <<>> THEN "done" ELSE "for"
  /\ ops' = <<Event("read_seeds", NoUrl, Len(read_seeds(args.seeds)), args.seeds.readable)>>
  /\ pbar' = NewBar
  /\ log(IF read_seeds(args.seeds) = <<>> THEN 2 ELSE 4)
  /\ UNCHANGED <<args, seed_url, queue, visited_urls, robots_cache,
                 pages_crawled, index_file, files, fetch_log, robots_reads,
                 io_faults, script, result>>
  /\ UNCHANGED frontier
  /\ Taped(NoChoice)

\* a depth limit that is off by one
max_depth_OffByOne == args.depth + 1

\* self.args.depth
max_depth == args.depth

\* a for loop that never breaks on the page budget
BudgetReached_Off == FALSE

\* self.args.max_pages > 0 and self.pages_crawled >= self.args.max_pages
BudgetReached == args.max_pages > 0 /\ pages_crawled >= args.max_pages

\* run: the for loop takes the next seed and calls crawl_seed
RunNextSeed ==
  /\ pc = "for"
  /\ seed_idx <= Len(seeds)
  /\ ~BudgetReached
  /\ seed_url' = seeds[seed_idx]
  /\ seed_idx' = seed_idx + 1
  /\ queue' = << [url |-> seeds[seed_idx], depth |-> 0, parent_url |-> NoUrl] >>
  /\ pc' = "crawl"
  /\ frontier' = Started(seeds[seed_idx])
  /\ ops' = <<>>
  /\ log(1)
  /\ UNCHANGED <<args, seeds, visited_urls, robots_cache, pages_crawled, index_file,
                 files, fetch_log, robots_reads, io_faults, script, result, pbar>>
  /\ Taped(NoChoice)

\* run: the for loop breaks on the page budget
RunBreak ==
  /\ pc = "for"
  /\ seed_idx <= Len(seeds)
  /\ BudgetReached
  /\ pc' = "done"
  /\ ops' = <<>>
  /\ pbar_close
  /\ log(2)
  /\ UNCHANGED <<args, seeds, seed_idx, seed_url, queue, visited_urls, robots_cache,
                 pages_crawled, index_file, files, fetch_log, robots_reads,
                 io_faults, script, result>>
  /\ UNCHANGED frontier
  /\ Taped(NoChoice)

\* run: the for loop is out of seeds
RunEnd ==
  /\ pc = "for"
  /\ seed_idx > Len(seeds)
  /\ pc' = "done"
  /\ ops' = <<>>
  /\ pbar_close
  /\ log(1)
  /\ UNCHANGED <<args, seeds, seed_idx, seed_url, queue, visited_urls, robots_cache,
                 pages_crawled, index_file, files, fetch_log, robots_reads,
                 io_faults, script, result>>
  /\ UNCHANGED frontier
  /\ Taped(NoChoice)

(***************************************************************************)
(* crawl_seed: one action per way an iteration of its while loop can go    *)
(***************************************************************************)

\* a loop that forgets the page budget
LoopCond_NoBudget == queue # <<>>

\* a loop that takes max_pages = 0 for a budget of no pages
LoopCond_ZeroIsBudget == queue # <<>> /\ pages_crawled < args.max_pages

\* while queue and (max_pages == 0 or pages_crawled < max_pages)
LoopCond ==
  /\ queue # <<>>
  /\ (args.max_pages = 0 \/ pages_crawled < args.max_pages)

\* the entry queue.pop() returns: the last one
entry_Last == queue[Len(queue)]

\* the entry queue.pop(0) returns
entry == Head(queue)

\* a loop that forgets the visited set
Skipped_NoVisitedCheck == entry.depth > max_depth

\* a visited test that is made for links only, never for a seed's own entry
Skipped_LinksOnly ==
  (entry.url \in visited_urls /\ entry.parent_url # NoUrl) \/ entry.depth > max_depth

\* the two "continue"s before the robots.txt check
Skipped == entry.url \in visited_urls \/ entry.depth > max_depth

\* what RobotFileParser.read() can meet now: it is called on a cache miss only
RobotsNow(url) ==
  IF base_url_of(url) \in DOMAIN robots_cache THEN {RobotsRaise}
  ELSE RobotsOutcomes(base_url_of(url))

\* what session.get can do on the three attempts of one fetch_page call
Scripts(url) ==
  { <<r, r, r>> : r \in Serve(url) }
    \cup { <<Raises("Timeout"), Raises("ConnectionError"), Raises("Timeout")>>,
           <<Raises("ConnectionError"), Raises("RequestException"),
             Raises("RequestException")>> }

\* the orders in which "for link in links" can go through a set
Orderings(S) ==
  { f \in [1..Cardinality(S) -> S] : \A i, j \in 1..Cardinality(S) : f[i] = f[j] => i = j }

\* the calls of the robots.txt check
PermTrace(url, p) ==
  (IF p.read THEN <<Event("robots_read", base_url_of(url), 0, ~p.cache[base_url_of(url)].none)>>
             ELSE <<>>)
    \o <<Event("can_fetch", url, 0, p.allowed)>>

\* random.uniform(delay_min, delay_max), in whole seconds
Delays == IF pages_crawled > 0 THEN args.delay_min..args.delay_max ELSE {0}

\* the calls from the robots.txt check to the return of fetch_page
FetchTrace(url, p, delay, r) ==
  PermTrace(url, p)
    \o (IF pages_crawled > 0 THEN <<Event("sleep", url, delay, TRUE)>> ELSE <<>>)
    \o <<Event("fetch_page", url, r.status_code, ~r.is_none)>>

\* the state changes of the robots.txt check
Checked(p, outcome) ==
  /\ robots_cache' = p.cache
  /\ robots_reads' = IF p.read
                       THEN Append(robots_reads, [base_url |-> base_url_of(entry.url),
                                                  outcome  |-> outcome])
                       ELSE robots_reads

\* the state changes from "Mark as visited" to the return of fetch_page
Fetched(r) ==
  /\ visited_urls' = visited_urls \cup {entry.url}
  /\ fetch_log' = Append(fetch_log,
                         [url |-> entry.url, depth |-> entry.depth,
                          parent_url |-> entry.parent_url, seed |-> seed_url,
                          ok |-> ~r.is_none, status_code |-> r.status_code,
                          content_type |-> r.content_type,
                          content_length |-> r.content_length])

\* a count that leaves out error responses
Counted_SuccessOnly(r) ==
  pages_crawled' = pages_crawled + (IF r.status_code >= 400 THEN 0 ELSE 1)

\* a count that is kept only while there is a progress bar to update
Counted_WithBar(r) == pages_crawled' = pages_crawled + (IF HasBar THEN 1 ELSE 0)

\* the page is counted: self.pages_crawled += 1
Counted(r) == pages_crawled' = pages_crawled + 1

\* the calls of self.log from the robots.txt check to the return of fetch_page
FetchLogs(p, gets) ==
  (IF p.read THEN 1 ELSE 0) + (IF pages_crawled > 0 THEN 1 ELSE 0)
    + fetch_page_logs(gets, 0)

\* queue.pop(0), and queue.append for the entries added
Popped(added) ==
  frontier' = [popped |-> [frontier.popped EXCEPT ![KindOf(entry.url)] = entry.depth],
               made   |-> Made(frontier.made, added)]

\* the while loop ends and crawl_seed returns to run
CrawlReturn ==
  /\ pc = "crawl"
  /\ ~LoopCond
  /\ pc' = "for"
  /\ queue' = <<>>
  /\ ops' = <<>>
  /\ log(1)
  /\ UNCHANGED <<args, seeds, seed_idx, seed_url, visited_urls, robots_cache,
                 pages_crawled, index_file, files, fetch_log, robots_reads,
                 io_faults, script, result, pbar>>
  /\ UNCHANGED frontier
  /\ Taped(NoChoice)

\* the entry is already visited, or too deep: continue
CrawlSkip ==
  /\ pc = "crawl"
  /\ LoopCond
  /\ Skipped
  /\ queue' = Tail(queue)
  /\ Popped(<<>>)
  /\ ops' = <<>>
  /\ UNCHANGED <<pc, args, seeds, seed_idx, seed_url, visited_urls, robots_cache,
                 pages_crawled, index_file, files, fetch_log, robots_reads,
                 io_faults, script, result, stdout, pbar>>
  /\ Taped(NoChoice)

\* robots.txt disallows the URL: continue
CrawlDisallowed ==
  /\ pc = "crawl"
  /\ LoopCond
  /\ ~Skipped
  /\ queue' = Tail(queue)
  /\ Popped(<<>>)
  /\ UNCHANGED <<pc, args, seeds, seed_idx, seed_url, visited_urls,
                 pages_crawled, index_file, files, fetch_log, io_faults, script, result,
                 pbar>>
  /\ \E outcome \in RobotsNow(entry.url) :
       LET p == can_fetch(robots_cache, entry.url, outcome)
       IN  /\ ~p.allowed
           /\ Checked(p, outcome)
           /\ ops' = PermTrace(entry.url, p)
           /\ log((IF p.read THEN 1 ELSE 0) + 1)
           /\ Taped(Chose(entry.url, FALSE, IF p.read THEN <<outcome>> ELSE <<>>,
                          <<>>, 0, <<>>, <<>>))

\* fetch_page returns None: continue
CrawlFetchFailed ==
  /\ pc = "crawl"
  /\ LoopCond
  /\ ~Skipped
  /\ queue' = Tail(queue)
  /\ Popped(<<>>)
  /\ UNCHANGED <<pc, args, seeds, seed_idx, seed_url, pages_crawled, index_file,
                 files, io_faults, script, result, pbar>>
  /\ \E outcome \in RobotsNow(entry.url) :
       LET p == can_fetch(robots_cache, entry.url, outcome)
       IN  /\ p.allowed
           /\ Checked(p, outcome)
           /\ \E sc \in Scripts(entry.url) :
                LET r == fetch_page(entry.url, sc)
                IN  /\ r.is_none
                    /\ Fetched(r)
                    /\ log(FetchLogs(p, sc))
                    /\ \E delay \in Delays :
                         /\ ops' = FetchTrace(entry.url, p, delay, r)
                         /\ Taped(Chose(entry.url, pages_crawled > 0,
                                        IF p.read THEN <<outcome>> ELSE <<>>,
                                        sc, delay, <<>>, <<>>))

\* what the file system can do to save_raw (when mkdir does not raise) and to
\* log_metadata
SaveOutcomes == {"ok", "write_error"}
LogOutcomes  == {"ok", "error"}

\* a branch test that looks at the content type only
AsFile_ByTypeOnly(url, r) == ~is_html_type(r.content_type)

\* is_file or not is_html: the branch that downloads a file
AsFile(url, r) == is_file_url(url) \/ ~is_html_type(r.content_type)

\* the calls of save_raw and log_metadata
StoreTrace(url, saved, io_log) ==
  << Event("save_raw", url, 0, saved.path # NoPath),
     Event("log_metadata", url, 0, io_log = "ok") >>

\* the failures of one save_raw and one log_metadata, counted; a run of the
\* model has at most MaxIoFaults of them
Faulted(io_save, io_log) ==
  LET save == io_faults.save + (IF io_save = "ok" THEN 0 ELSE 1)
      log_ == io_faults.log + (IF io_log = "ok" THEN 0 ELSE 1)
  IN  /\ save + log_ <= MaxIoFaults
      /\ io_faults' = [save |-> save, log |-> log_]

\* the state changes of save_raw followed by log_metadata
Stored(r, saved, io_log) ==
  /\ files' = saved.fs
  /\ index_file' = log_metadata(index_file, entry.url, r.status_code, r.content_type,
                                saved.path, entry.depth, entry.parent_url,
                                r.content_length, io_log)

\* the links of a page that are added to the queue
Followed(r) ==
  { link \in parse_links(r.content, entry.url) :
      link \notin (visited_urls \cup {entry.url}) /\ should_follow(link, seed_url) }

\* the orders in which the links of a page can be added to the queue; below
\* the maximum depth only
LinkOrders(r) ==
  IF entry.depth < max_depth THEN Orderings(Followed(r)) ELSE { <<>> }

\* an enqueue that puts every link one level deeper
Enqueued_AllDeeper(order) ==
  [i \in 1..Len(order) |->
     [url |-> order[i], depth |-> entry.depth + 1, parent_url |-> entry.url]]

\* the queue entries appended for the links, taken in the given order
Enqueued(order) ==
  [i \in 1..Len(order) |->
     IF is_file_url(order[i])
       THEN [url |-> order[i], depth |-> entry.depth, parent_url |-> entry.url]
       ELSE [url |-> order[i], depth |-> entry.depth + 1, parent_url |-> entry.url]]

\* a page was fetched and mkdir raises in save_raw: the exception leaves
\* save_raw, crawl_seed, run and main
CrawlSaveRaises ==
  /\ pc = "crawl"
  /\ LoopCond
  /\ ~Skipped
  /\ queue' = Tail(queue)
  /\ Popped(<<>>)
  /\ pc' = "crashed"
  /\ UNCHANGED <<args, seeds, seed_idx, seed_url, index_file, files, io_faults, script, result>>
  /\ \E outcome \in RobotsNow(entry.url) :
       LET p == can_fetch(robots_cache, entry.url, outcome)
       IN  /\ p.allowed
           /\ Checked(p, outcome)
           /\ \E sc \in Scripts(entry.url) :
                LET r     == fetch_page(entry.url, sc)
                    saved == save_raw(files, r.content, entry.url,
                                      AsFile(entry.url, r), "mkdir_error")
                IN  /\ ~r.is_none
                    /\ saved.raised
                    /\ Fetched(r)
                    /\ Counted(r)
                    /\ pbar_update
                    /\ log(FetchLogs(p, sc))
                    /\ \E delay \in Delays :
                         /\ ops' = FetchTrace(entry.url, p, delay, r)
                                     \o <<Event("save_raw", entry.url, 0, FALSE)>>
                         /\ Taped(Chose(entry.url, pages_crawled > 0,
                                        IF p.read THEN <<outcome>> ELSE <<>>,
                                        sc, delay, <<"mkdir_error">>, <<>>))

\* a file, or a page that is not HTML, was fetched: saved and logged
CrawlFile ==
  /\ pc = "crawl"
  /\ LoopCond
  /\ ~Skipped
  /\ queue' = Tail(queue)
  /\ Popped(<<>>)
  /\ UNCHANGED <<pc, args, seeds, seed_idx, seed_url, script, result>>
  /\ \E outcome \in RobotsNow(entry.url) :
       LET p == can_fetch(robots_cache, entry.url, outcome)
       IN  /\ p.allowed
           /\ Checked(p, outcome)
           /\ \E sc \in Scripts(entry.url) :
                LET r == fetch_page(entry.url, sc)
                IN  /\ ~r.is_none
                    /\ AsFile(entry.url, r)
                    /\ Fetched(r)
                    /\ Counted(r)
                    /\ pbar_update
                    /\ log(FetchLogs(p, sc) + 2)
                    /\ \E io_save \in SaveOutcomes, io_log \in LogOutcomes :
                         LET saved == save_raw(files, r.content, entry.url, TRUE, io_save)
                         IN  /\ ~saved.raised
                             /\ Faulted(io_save, io_log)
                             /\ Stored(r, saved, io_log)
                             /\ \E delay \in Delays :
                                  /\ ops' = FetchTrace(entry.url, p, delay, r)
                                              \o StoreTrace(entry.url, saved, io_log)
                                  /\ Taped(Chose(entry.url, pages_crawled > 0,
                                                 IF p.read THEN <<outcome>> ELSE <<>>,
                                                 sc, delay, <<io_save, io_log>>, <<>>))

\* an HTML page was fetched: saved, logged and, below the maximum depth, its
\* links added to the queue
CrawlHtml ==
  /\ pc = "crawl"
  /\ LoopCond
  /\ ~Skipped
  /\ UNCHANGED <<pc, args, seeds, seed_idx, seed_url, script, result>>
  /\ \E outcome \in RobotsNow(entry.url) :
       LET p == can_fetch(robots_cache, entry.url, outcome)
       IN  /\ p.allowed
           /\ Checked(p, outcome)
           /\ \E sc \in Scripts(entry.url) :
                LET r == fetch_page(entry.url, sc)
                IN  /\ ~r.is_none
                    /\ ~AsFile(entry.url, r)
                    /\ Fetched(r)
                    /\ Counted(r)
                    /\ pbar_update
                    /\ log(FetchLogs(p, sc) + 2 + (IF entry.depth < max_depth THEN 1 ELSE 0))
                    /\ \E order \in LinkOrders(r) :
                         /\ queue' = Tail(queue) \o Enqueued(order)
                         /\ Popped(Enqueued(order))
                         /\ \E io_save \in SaveOutcomes, io_log \in LogOutcomes :
                              LET saved == save_raw(files, r.content, entry.url, FALSE,
                                                    io_save)
                              IN  /\ ~saved.raised
                                  /\ Faulted(io_save, io_log)
                                  /\ Stored(r, saved, io_log)
                                  /\ \E delay \in Delays :
                                       /\ ops' = FetchTrace(entry.url, p, delay, r)
                                                   \o StoreTrace(entry.url, saved, io_log)
                                       /\ Taped(Chose(entry.url, pages_crawled > 0,
                                                      IF p.read THEN <<outcome>> ELSE <<>>,
                                                      sc, delay, <<io_save, io_log>>,
                                                      order))

Next ==
  \/ MainReject
  \/ MainRun
  \/ RunNextSeed
  \/ RunBreak
  \/ RunEnd
  \/ CrawlReturn
  \/ CrawlSkip
  \/ CrawlDisallowed
  \/ CrawlFetchFailed
  \/ CrawlSaveRaises
  \/ CrawlFile
  \/ CrawlHtml

Spec == Init /\ [][Next]_vars

(***************************************************************************)
(* fetch_page on its own: one call, under every behaviour of session.get   *)
(***************************************************************************)

\* what session.get can do on one attempt
GetOutcomes ==
  { Raises("Timeout"), Raises("ConnectionError"), Raises("RequestException"),
    Response(200, CT_HTML_UPPER, PAGE_DOCS), Response(404, CT_PNG, PAGE_NONE) }

FetchScripts ==
  { [url |-> u, gets |-> <<g1, g2, g3>>] :
      u \in {U_DOCS, U_PDF}, g1 \in GetOutcomes, g2 \in GetOutcomes, g3 \in GetOutcomes }

InitFetch ==
  /\ pc = "fetch_page"
  /\ script \in FetchScripts
  /\ args \in { a \in ArgSets : ArgsValid(a) /\ a.depth = 0 /\ a.max_pages = 0
                                  /\ ~a.seeds.readable }
  /\ seeds = <<>>
  /\ seed_idx = 1
  /\ seed_url = NoUrl
  /\ queue = <<>>
  /\ visited_urls = {}
  /\ robots_cache = EmptyFn
  /\ pages_crawled = 0
  /\ index_file = <<>>
  /\ files = EmptyFn
  /\ fetch_log = <<>>
  /\ robots_reads = <<>>
  /\ ops = <<>>
  /\ io_faults = [save |-> 0, log |-> 0]
  /\ result = Absent(<<>>)
  /\ stdout = 0
  /\ pbar = NoBar
  /\ tape = NoTape
  /\ frontier = NoFrontier

\* the call fetch_page(url); ops is the trace of its session.get and
\* time.sleep calls
FetchCall ==
  /\ pc = "fetch_page"
  /\ result' = fetch_page(script.url, script.gets)
  /\ ops' = fetch_page(script.url, script.gets).trace
  /\ pc' = "returned"
  /\ log(fetch_page_logs(script.gets, 0))
  /\ UNCHANGED <<args, seeds, seed_idx, seed_url, queue, visited_urls, robots_cache,
                 pages_crawled, index_file, files, fetch_log, robots_reads,
                 io_faults, script, pbar, tape, frontier>>

NextFetch == FetchCall

SpecFetch == InitFetch /\ [][NextFetch]_vars

(***************************************************************************)
(* Properties                                                              *)
(***************************************************************************)

Last(seq) == seq[Len(seq)]

\* the step made a call of fetch_page
FetchStep == Len(fetch_log') > Len(fetch_log)

\* C1: no URL is fetched twice
FetchedOnce ==
  \A i, j \in 1..Len(fetch_log) : fetch_log[i].url = fetch_log[j].url => i = j

\* C1: the visited set only grows, and only by the URL that is fetched in the
\* same step, which was not visited before; an entry whose URL is visited is
\* popped and nothing else happens
VisitedStep ==
  /\ visited_urls \subseteq visited_urls'
  /\ FetchStep => /\ Last(fetch_log').url \notin visited_urls
                  /\ visited_urls' = visited_urls \cup {Last(fetch_log').url}
  /\ ~FetchStep => visited_urls' = visited_urls
  /\ (pc = "crawl" /\ LoopCond /\ entry.url \in visited_urls)
        => /\ queue' = Tail(queue)
           /\ ops' = <<>>
           /\ UNCHANGED <<visited_urls, robots_cache, robots_reads, fetch_log,
                          pages_crawled, index_file, files>>

\* C1: every URL is marked visited and fetched at most once in a run; a
\* later queue entry for a visited URL is discarded with no robots.txt check,
\* fetch, save or enqueue; the visited set never loses an element
C1_VisitedOnce == []FetchedOnce /\ [][VisitedStep]_vars

\* C1: the head of the queue is a URL met again after its fetch returned None
C1_Witness ==
  /\ pc = "crawl"
  /\ LoopCond
  /\ entry.url \in visited_urls
  /\ \E i \in 1..Len(fetch_log) : fetch_log[i].url = entry.url /\ ~fetch_log[i].ok

\* C2: every call of fetch_page is for a queue entry whose depth is at most
\* the configured maximum depth
C2_DepthBound ==
  \A i \in 1..Len(fetch_log) : fetch_log[i].depth <= args.depth

\* C2: a page was fetched at exactly the maximum depth, two links from its seed
C2_Witness ==
  /\ args.depth = 2
  /\ \E i \in 1..Len(fetch_log) : fetch_log[i].depth = args.depth

\* C3: with a page budget (max_pages > 0) the count of crawled pages never
\* exceeds it
C3_BudgetBound ==
  args.max_pages > 0 => pages_crawled <= args.max_pages

\* C3: the budget is used up while an unvisited entry waits in the queue
C3_Witness ==
  /\ args.max_pages > 0
  /\ pages_crawled = args.max_pages
  /\ pc = "crawl"
  /\ queue # <<>>
  /\ entry.url \notin visited_urls

\* the scope rule as the claim states it: same host, and the path starts with
\* the seed's path without its trailing slashes, unless that is empty
InScope(url, seed) ==
  LET trimmed == RStrip(urlparse(seed).path, "/")
  IN  /\ urlparse(url).netloc = urlparse(seed).netloc
      /\ (trimmed = <<>> \/ StartsWith(urlparse(url).path, trimmed))

\* the run of the example: depth 1, and the seed http://h/d/ answered with
\* the page that links to /d/x, /b and http://o/z
ExampleRun ==
  /\ args.depth = 1
  /\ \E i \in 1..Len(fetch_log) :
        /\ fetch_log[i].url = U_DOCS
        /\ fetch_log[i].seed = U_DOCS
        /\ fetch_log[i].ok
        /\ fetch_log[i].content_length = Len(PAGE_DOCS)

\* C4: every URL fetched in the crawl of a seed, other than the seed, is in
\* the scope of the seed; in the example run the crawl of http://h/d/ fetches
\* no page but the seed and /d/x
C4_InScope ==
  /\ \A i \in 1..Len(fetch_log) :
        fetch_log[i].url # fetch_log[i].seed
          => InScope(fetch_log[i].url, fetch_log[i].seed)
  /\ ExampleRun =>
        \A i \in 1..Len(fetch_log) :
           fetch_log[i].seed = U_DOCS => fetch_log[i].url \in {U_DOCS, U_X}

\* C4: the example run is over, and /d/x is the one more page it fetched
C4_Witness ==
  /\ ExampleRun
  /\ seeds = <<U_DOCS, U_O>>
  /\ pc = "done"
  /\ \E i \in 1..Len(fetch_log) :
        fetch_log[i].url = U_X /\ fetch_log[i].seed = U_DOCS /\ fetch_log[i].ok
  /\ U_BLOG \notin visited_urls

\* what the permission cache answers for a URL whose domain it holds
Permits(cache, url) ==
  LET rp == cache[base_url_of(url)]
  IN  IF rp.none THEN TRUE ELSE RobotFileParser_can_fetch(rp, url)

\* C5: an entry that reaches the robots.txt check is fetched exactly when the
\* answer is "permitted"; when it is not, the entry is popped and the visited
\* set, the fetches, the page count, the files, the log and the rest of the
\* queue stay as they are
PermissionStep ==
  (pc = "crawl" /\ LoopCond /\ ~Skipped)
    => /\ base_url_of(entry.url) \in DOMAIN robots_cache'
       /\ FetchStep <=> Permits(robots_cache', entry.url)
       /\ FetchStep => Last(fetch_log').url = entry.url
       /\ ~Permits(robots_cache', entry.url)
            => /\ queue' = Tail(queue)
               /\ UNCHANGED <<visited_urls, fetch_log, pages_crawled, index_file, files>>

\* C5: a fetch happens only in a step whose robots.txt check permitted the
\* URL; a denied entry is discarded and changes nothing else
C5_PermittedOnly ==
  [][PermissionStep /\ (FetchStep => pc = "crawl" /\ LoopCond /\ ~Skipped)]_vars

\* C5: robots.txt has just denied a URL, after another page was fetched
C5_Witness ==
  /\ fetch_log # <<>>
  /\ \E k \in 1..Len(ops) :
        /\ ops[k].op = "can_fetch"
        /\ ~ops[k].ok
        /\ ops[k].url \notin visited_urls


\* the retrieval of a robots.txt failed: read() raised, or the server
\* answered with an HTTP error status
RetrievalFailed(outcome) == outcome.raises \/ outcome.http_error # 0

\* C6: robots.txt is read at most once for a domain, the cache holds one
\* entry for each domain read, and when the retrieval failed the entry is the
\* fail-open marker (None) and every URL of the domain is permitted
C6_FailOpen ==
  /\ \A i, j \in 1..Len(robots_reads) :
        robots_reads[i].base_url = robots_reads[j].base_url => i = j
  /\ DOMAIN robots_cache = { robots_reads[i].base_url : i \in 1..Len(robots_reads) }
  /\ \A i \in 1..Len(robots_reads) :
        RetrievalFailed(robots_reads[i].outcome)
          => /\ robots_cache[robots_reads[i].base_url] = NoParser
             /\ \A u \in {U_DOCS, U_X, U_Y, U_PDF, U_BLOG, U_O, U_OZ} :
                   base_url_of(u) = robots_reads[i].base_url => Permits(robots_cache, u)

\* the session.get of attempt k fails with a timeout or a connection error
Transient(k) == script.gets[k].exc \in TransientErrors

\* the calls of fetch_page for n failed attempts that are each followed by
\* another attempt: a get, then a sleep of 1 s after the first and of 2 s
\* after the second
FailedAttempts(n) ==
  SubSeq(<< Event("get", script.url, 0, FALSE), Event("sleep", script.url, 1, TRUE),
            Event("get", script.url, 1, FALSE), Event("sleep", script.url, 2, TRUE) >>,
         1, 2 * n)

\* C7: fetch_page makes at most 3 GET attempts; when attempts 1..k-1 fail
\* with a timeout or a connection error and attempt k gets a response, it
\* returns the body, the status, the (lower-cased) content type and the
\* length of that response, having slept 1 s after the first and 2 s after
\* the second failure and not after the response; when all three attempts
\* fail it does not sleep after the third
C7_Retry ==
  pc = "returned" =>
    /\ Cardinality({i \in 1..Len(ops) : ops[i].op = "get"}) <= 3
    /\ \A k \in 1..3 :
          ((\A j \in 1..(k - 1) : Transient(j)) /\ script.gets[k].exc = "")
            => /\ ~result.is_none
               /\ result.content = script.gets[k].content
               /\ result.status_code = script.gets[k].status_code
               /\ result.content_type = Lower(script.gets[k].content_type)
               /\ result.content_length = Len(script.gets[k].content)
               /\ ops = FailedAttempts(k - 1) \o <<Event("get", script.url, k - 1, TRUE)>>
    /\ (\A j \in 1..3 : Transient(j))
          => /\ result.is_none
             /\ ops = FailedAttempts(2) \o <<Event("get", script.url, 2, FALSE)>>

\* C7: two transient failures, then a response on the third attempt
C7_Witness ==
  /\ pc = "returned"
  /\ Transient(1)
  /\ Transient(2)
  /\ script.gets[3].exc = ""
  /\ ~result.is_none
  /\ Len(ops) = 5

\* C8: no exception leaves the processing of a queue entry and ends the run
C8_NoAbort == pc # "crashed"

IsOk(f) == f.ok

\* the fields a log record shares with the queue entry that was fetched
Fetch3(seq) ==
  [i \in 1..Len(seq) |->
     [url |-> seq[i].url, depth |-> seq[i].depth, parent_url |-> seq[i].parent_url]]

\* C9: when no append has failed, the metadata log holds, in the order of the
\* fetches, one record for each fetch that returned a body and no other
\* record, each with the depth and the parent URL of the fetched entry
C9_LogMatchesFetches ==
  io_faults.log = 0 => Fetch3(index_file) = Fetch3(SelectSeq(fetch_log, IsOk))

\* the log only grows at its end
AppendOnly ==
  /\ Len(index_file') >= Len(index_file)
  /\ SubSeq(index_file', 1, Len(index_file)) = index_file

\* the count changes in the traversal loop only, by 1 when the step's fetch
\* returned a body and not at all otherwise
CountStep ==
  /\ pages_crawled' = pages_crawled + (IF FetchStep /\ Last(fetch_log').ok THEN 1 ELSE 0)
  /\ pages_crawled' # pages_crawled => pc = "crawl" /\ LoopCond

\* C10: pages_crawled is the number of fetches that returned a body,
\* whatever their status code, and changes by 1 in the step of such a fetch
\* and in no other step, whether or not the page could be saved and logged
C10_CountsBodies ==
  /\ [](pages_crawled = Cardinality({i \in 1..Len(fetch_log) : fetch_log[i].ok}))
  /\ [][CountStep]_vars

\* C10: an error response was counted and logged, another fetch returned
\* None, and a save or an append has failed
C10_Witness ==
  /\ pages_crawled = 2
  /\ io_faults.save + io_faults.log > 0
  /\ \E i \in 1..Len(fetch_log) : ~fetch_log[i].ok
  /\ \E i \in 1..Len(fetch_log) :
        /\ fetch_log[i].ok
        /\ fetch_log[i].status_code >= 400
        /\ \E j \in 1..Len(index_file) :
              /\ index_file[j].url = fetch_log[i].url
              /\ index_file[j].status_code = fetch_log[i].status_code

(***************************************************************************)
(* should_follow and parse_links on their own: one call of one of them     *)
(***************************************************************************)

HTTPS    == <<"h","t","t","p","s",":","/","/">>
B_HTTPS  == HTTPS \o <<"h","/">>
B_PAGE   == HTTP \o <<"h","/","d","/","p">>
B_FRAG   == HTTP \o <<"h","/","d","/","p","#","s">>

\* the anchors /a, /b, https://h/c and #frag
BODY_EXAMPLE == << <<"/","a">>, <<"/","b">>, HTTPS \o <<"h","/","c">>,
                   <<"#","f","r","a","g">> >>
\* anchors that resolve to one URL, an empty href, a bare "#"
BODY_DUPS    == << <<"a","#","f">>, <<"a">>, <<"a","#","g">>, <<>>, <<"#">> >>

Bodies == { BODY_EXAMPLE, BODY_DUPS, PAGE_DOCS, PAGE_BACK, PAGE_O, PAGE_NONE }
Bases  == { B_HTTPS, B_PAGE, B_FRAG, U_DOCS }

\* the host parts and the paths of the URLs should_follow is called with
Netlocs    == { <<"h">>, <<"H">>, <<"h",":","8","0">>, <<"o">> }
UrlPaths   == { <<>>, <<"/">>, <<"/","d">>, <<"/","d","X">>, <<"/","d","/","x">>,
                <<"/","b">>, <<"/","D","/","x">>, <<"/","d","?","q">>,
                <<"/","b","#","/","d">> }
SeedPaths  == { <<>>, <<"/">>, <<"/","/">>, <<"/","d">>, <<"/","d","/">>,
                <<"/","d","/","/">>, <<"/","d","/","x","?","q">> }

Call(fn, a, b) == [fn |-> fn, a |-> a, b |-> b]

Calls ==
  { Call("should_follow", sch \o n \o p, HTTP \o sn \o sp) :
      sch \in {HTTP, HTTPS}, n \in Netlocs, p \in UrlPaths,
      sn \in { <<"h">>, <<"h",":","8","0">> }, sp \in SeedPaths }
  \cup { Call("parse_links", body, base) : body \in Bodies, base \in Bases }

InitCalls ==
  /\ pc = "call"
  /\ script \in Calls
  /\ args \in { a \in ArgSets : ArgsValid(a) /\ a.depth = 0 /\ a.max_pages = 0
                                  /\ ~a.seeds.readable }
  /\ seeds = <<>>
  /\ seed_idx = 1
  /\ seed_url = NoUrl
  /\ queue = <<>>
  /\ visited_urls = {}
  /\ robots_cache = EmptyFn
  /\ pages_crawled = 0
  /\ index_file = <<>>
  /\ files = EmptyFn
  /\ fetch_log = <<>>
  /\ robots_reads = <<>>
  /\ ops = <<>>
  /\ io_faults = [save |-> 0, log |-> 0]
  /\ result = [fn |-> "", value |-> FALSE]
  /\ stdout = 0
  /\ pbar = NoBar
  /\ tape = NoTape
  /\ frontier = NoFrontier

\* the call should_follow(url, seed_url)
ShouldFollowCall ==
  /\ pc = "call"
  /\ script.fn = "should_follow"
  /\ result' = [fn |-> script.fn, value |-> should_follow(script.a, script.b)]
  /\ pc' = "called"
  /\ UNCHANGED <<args, seeds, seed_idx, seed_url, queue, visited_urls, robots_cache,
                 pages_crawled, index_file, files, fetch_log, robots_reads, ops,
                 io_faults, script, stdout, pbar, tape, frontier>>

\* the call parse_links(html_content, base_url)
ParseLinksCall ==
  /\ pc = "call"
  /\ script.fn = "parse_links"
  /\ result' = [fn |-> script.fn, value |-> parse_links(script.a, script.b)]
  /\ pc' = "called"
  /\ UNCHANGED <<args, seeds, seed_idx, seed_url, queue, visited_urls, robots_cache,
                 pages_crawled, index_file, files, fetch_log, robots_reads, ops,
                 io_faults, script, stdout, pbar, tape, frontier>>

NextCalls ==
  \/ ShouldFollowCall
  \/ ParseLinksCall

SpecCalls == InitCalls /\ [][NextCalls]_vars

\* the part of a URL between "://" and the next "/", "?" or "#": the host
\* with its port
RECURSIVE UpTo(_, _)
UpTo(s, stops) ==
  IF s = <<>> \/ Head(s) \in stops THEN <<>> ELSE <<Head(s)>> \o UpTo(Tail(s), stops)

RECURSIVE After(_, _)
After(s, mark) ==
  IF Len(s) < Len(mark) THEN <<>>
  ELSE IF SubSeq(s, 1, Len(mark)) = mark THEN SubSeq(s, Len(mark) + 1, Len(s))
  ELSE After(Tail(s), mark)

HostPort(url) == UpTo(After(url, <<":","/","/">>), {"/", "?", "#"})

\* the path of a URL: what follows the host, up to the query or the fragment
PathOf(url) ==
  LET rest == After(url, <<":","/","/">>)
  IN  UpTo(SubSeq(rest, Len(HostPort(url)) + 1, Len(rest)), {"?", "#"})

\* a path without its trailing slashes
RECURSIVE Trimmed(_)
Trimmed(p) ==
  IF p # <<>> /\ p[Len(p)] = "/" THEN Trimmed(SubSeq(p, 1, Len(p) - 1)) ELSE p

IsRawPrefix(pre, s) == Len(pre) <= Len(s) /\ SubSeq(s, 1, Len(pre)) = pre

\* C11: should_follow(candidate, seed) is true exactly when the candidate's
\* host with port equals the seed's and the seed's path without trailing
\* slashes is empty or is a raw string prefix of the candidate's path
C11_ShouldFollowIff ==
  (pc = "called" /\ script.fn = "should_follow")
    => (result.value <=>
          /\ HostPort(script.a) = HostPort(script.b)
          /\ \/ Trimmed(PathOf(script.b)) = <<>>
             \/ IsRawPrefix(Trimmed(PathOf(script.b)), PathOf(script.a)))

\* C11: /dX was accepted against the seed path /d
C11_Witness ==
  /\ pc = "called"
  /\ script.fn = "should_follow"
  /\ PathOf(script.a) = <<"/","d","X">>
  /\ PathOf(script.b) = <<"/","d","/">>
  /\ HostPort(script.a) = <<"h",":","8","0">>
  /\ result.value

\* the URLs of the anchors /a, /b and https://h/c against the base https://h/
EXAMPLE_LINKS ==
  { HTTPS \o <<"h","/","a">>, HTTPS \o <<"h","/","b">>, HTTPS \o <<"h","/","c">> }

\* the call of the example: the four anchors, base https://h/
ExampleCall ==
  /\ pc = "called"
  /\ script = Call("parse_links", BODY_EXAMPLE, B_HTTPS)

\* what one anchor contributes: its target resolved against the base, cut at
\* the first "#"
Target(base, href) == UpTo(urljoin(base, href), {"#"})

\* the result of parse_links is the set of the resolved, fragment-free targets
\* of all anchors, without the empty string
ResolvedTargets ==
  (pc = "called" /\ script.fn = "parse_links")
    => /\ \A i \in 1..Len(script.a) :
             Target(script.b, script.a[i]) # <<>>
               => Target(script.b, script.a[i]) \in result.value
       /\ \A link \in result.value :
             /\ link # <<>>
             /\ \A k \in 1..Len(link) : link[k] # "#"
             /\ \E i \in 1..Len(script.a) : link = Target(script.b, script.a[i])

\* C12 (as stated): on the anchors /a, /b, https://h/c and #frag with base
\* https://h/, parse_links returns exactly {https://h/a, https://h/b,
\* https://h/c}, and in general the set of resolved, fragment-free, non-empty
\* anchor targets
C12_ExampleThreeLinks ==
  /\ ResolvedTargets
  /\ ExampleCall => result.value = EXAMPLE_LINKS

\* C12 (amended): on the example parse_links returns the three URLs and the
\* base URL https://h/, which is what the anchor #frag resolves to once its
\* fragment is cut; in general the set of resolved, fragment-free, non-empty
\* anchor targets
C12_ExampleWithBase ==
  /\ ResolvedTargets
  /\ ExampleCall => result.value = EXAMPLE_LINKS \cup {B_HTTPS}

\* C12: parse_links has returned for the example and the base URL is among
\* the links
C12_Witness ==
  /\ ExampleCall
  /\ B_HTTPS \in result.value
  /\ Cardinality(result.value) = 4

\* the configuration is invalid, as the claim lists it
InvalidConfig ==
  \/ args.delay_min < 0
  \/ args.delay_max < 0
  \/ args.delay_min > args.delay_max
  \/ args.depth < 0
  \/ args.max_pages < 0

\* nothing has been read, checked, fetched or written
NothingDone ==
  /\ seeds = <<>>
  /\ ops = <<>>
  /\ queue = <<>>
  /\ visited_urls = {}
  /\ robots_cache = EmptyFn
  /\ robots_reads = <<>>
  /\ fetch_log = <<>>
  /\ pages_crawled = 0
  /\ files = EmptyFn
  /\ index_file = <<>>

\* C13: with an invalid configuration the program exits with status 1 and
\* has read no seed, made no robots.txt check, fetched nothing and written
\* nothing; it goes on to read the seeds and crawl only when all four checks
\* pass
C13_InvalidConfigExits ==
  /\ [](InvalidConfig => pc \in {"main", "exit_1"} /\ NothingDone)
  /\ [](pc = "exit_1" => InvalidConfig)
  /\ [][pc = "main" => (IF InvalidConfig THEN pc' = "exit_1" /\ NothingDone'
                                        ELSE pc' \in {"for", "done"} /\ ops' # <<>>)]_vars

\* C13: exit with status 1 on a negative page budget, everything else valid
C13_Witness ==
  /\ pc = "exit_1"
  /\ args.max_pages < 0
  /\ args.depth >= 0
  /\ args.delay_min >= 0
  /\ args.delay_min <= args.delay_max
  /\ args.seeds.readable

\* a line without the white space at its two ends
RECURSIVE Trim(_)
Trim(l) ==
  IF l = <<>> THEN l
  ELSE IF Head(l) \in {" ", "\t", "\r", "\n"} THEN Trim(Tail(l))
  ELSE IF l[Len(l)] \in {" ", "\t", "\r", "\n"} THEN Trim(SubSeq(l, 1, Len(l) - 1))
  ELSE l

\* a trimmed line that is a seed: not empty, not a comment
IsSeedLine(l) == l # <<>> /\ Head(l) # "#"

\* the seeds of a file: its trimmed lines that are seeds, in file order
SeedLines(file) == SelectSeq([i \in 1..Len(file.lines) |-> Trim(file.lines[i])], IsSeedLine)

\* the file of the example: 2 comment lines, 1 blank line, 2 URL lines
EXAMPLE_SEEDS ==
  SeedsFile(<< <<"#"," ","c">> \o NL, U_DOCS \o NL, NL, U_O \o NL, <<"#">> >>)

\* no robots.txt check, no fetch, nothing written
NoCrawl ==
  /\ queue = <<>>
  /\ visited_urls = {}
  /\ robots_reads = <<>>
  /\ fetch_log = <<>>
  /\ pages_crawled = 0
  /\ files = EmptyFn
  /\ index_file = <<>>

\* C15: read_seeds returns the trimmed lines of the file that are not empty
\* and do not start with "#", in file order (the two URLs of the example
\* file); a file that cannot be read gives no seeds, and the run then ends
\* without a robots.txt check, a fetch or a write
C15_SeedLoading ==
  /\ [](pc \in {"for", "crawl", "done", "crashed"}
          => /\ args.seeds.readable => seeds = SeedLines(args.seeds)
             /\ args.seeds = EXAMPLE_SEEDS => seeds = <<U_DOCS, U_O>>
             /\ ~args.seeds.readable => seeds = <<>> /\ pc = "done" /\ NoCrawl)
  /\ [][(pc = "main" /\ pc' # "exit_1" /\ ~args.seeds.readable)
          => pc' = "done" /\ NoCrawl']_vars

\* C15: the seeds of the example file have been loaded
C15_Witness ==
  /\ pc = "for"
  /\ args.seeds = EXAMPLE_SEEDS
  /\ seeds = <<U_DOCS, U_O>>
  /\ \E k \in 1..Len(ops) : ops[k].op = "read_seeds" /\ ops[k].n = 2

\* the step's call of fetch_page comes right after a sleep of the politeness
\* delay, a duration between delay_min and delay_max
DelayedFetch ==
  \E k \in 2..Len(ops') :
     /\ ops'[k].op = "fetch_page"
     /\ ops'[k - 1].op = "sleep"
     /\ ops'[k - 1].n >= args.delay_min
     /\ ops'[k - 1].n <= args.delay_max

\* C16: every call of fetch_page but the first of the run comes right after a
\* politeness delay, whether or not the earlier calls returned a body; the
\* first call of the run has none
C16_DelayBeforeLaterFetches ==
  [][FetchStep => (DelayedFetch <=> fetch_log # <<>>)]_vars

\* the page budget is used up
BudgetUsed == args.max_pages > 0 /\ pages_crawled >= args.max_pages

\* a step that only leaves a loop: it takes no entry from the queue, starts
\* no seed and makes no call
OnlyReturns ==
  /\ pc' \in {"for", "done"}
  /\ ops' = <<>>
  /\ queue' \in {queue, <<>>}
  /\ UNCHANGED <<seed_idx, seed_url, visited_urls, robots_cache, robots_reads,
                 fetch_log, pages_crawled, files, index_file>>

\* a seed is started by the for loop of run only, after the crawl of the seed
\* before it has returned, and it is the next seed of the file
SeedOrderStep ==
  /\ seed_idx' # seed_idx
       => /\ pc = "for"
          /\ pc' = "crawl"
          /\ seed_idx' = seed_idx + 1
          /\ seed_url' = seeds[seed_idx]
          /\ queue' = << [url |-> seeds[seed_idx], depth |-> 0, parent_url |-> NoUrl] >>
  /\ (seed_url' # seed_url \/ (pc # "crawl" /\ pc' = "crawl")) => seed_idx' # seed_idx
  /\ FetchStep => /\ pc = "crawl"
                  /\ seed_url = seeds[seed_idx - 1]
                  /\ Last(fetch_log').seed = seed_url
                  /\ Last(fetch_log').url = entry.url

\* C17: the seeds are crawled in file order, one at a time; once the page
\* count has reached a budget max_pages > 0, no entry is taken from the queue,
\* no robots.txt check or fetch is made and no later seed is started, whatever
\* the queue still holds
C17_BudgetStopsAll ==
  [][SeedOrderStep /\ (BudgetUsed => OnlyReturns)]_vars

\* C17: the budget is used up in the crawl of the first seed, with entries
\* left in the queue and a seed left in the file
C17_Witness ==
  /\ BudgetUsed
  /\ pc = "crawl"
  /\ queue # <<>>
  /\ entry.url \notin visited_urls
  /\ seed_idx = 2
  /\ Len(seeds) >= 2

\* the URL contains .pdf, .doc or .docx, in any case
HasFileExt(url) ==
  \E ext \in { <<".","p","d","f">>, <<".","d","o","c">>, <<".","d","o","c","x">> } :
     \E k \in 0..(Len(url) - Len(ext)) : Lower(SubSeq(url, k + 1, k + Len(ext))) = ext

\* the call of fetch_page for a URL (there is at most one in a run)
FetchOf(url) == fetch_log[CHOOSE i \in 1..Len(fetch_log) : fetch_log[i].url = url]

\* the number of hops that lead to a page, not to a file, on the chain of
\* parent URLs from the seed's entry to the entry (url, parent_url)
RECURSIVE PageHops(_, _)
PageHops(url, parent_url) ==
  IF parent_url = NoUrl THEN 0
  ELSE PageHops(parent_url, FetchOf(parent_url).parent_url)
         + (IF HasFileExt(url) THEN 0 ELSE 1)

\* the page that referred to a queue entry was fetched in this seed's crawl,
\* with a body, as HTML, below the maximum depth, and the entry has its depth
\* for a file link and its depth + 1 for any other link
ReferredBy(e) ==
  /\ \E i \in 1..Len(fetch_log) : fetch_log[i].url = e.parent_url
  /\ LET f == FetchOf(e.parent_url)
     IN  /\ f.seed = seed_url
         /\ f.ok
         /\ Contains(TEXT_HTML, f.content_type)
         /\ ~HasFileExt(f.url)
         /\ f.depth < args.depth
         /\ e.depth = (IF HasFileExt(e.url) THEN f.depth ELSE f.depth + 1)

\* C18: the depth of every queue entry of a seed's crawl is the number of
\* page hops on its chain of parents from the seed's entry at depth 0; a link
\* with a file extension has the depth of the page that referred to it, any
\* other link that depth + 1, and the parent URL is that page, fetched as HTML
\* below the maximum depth
C18_DepthIsHops ==
  pc = "crawl" =>
    \A k \in 1..Len(queue) :
       /\ queue[k].depth = PageHops(queue[k].url, queue[k].parent_url)
       /\ IF queue[k].parent_url = NoUrl
            THEN queue[k].url = seed_url /\ queue[k].depth = 0
            ELSE ReferredBy(queue[k])

\* C18: the queue holds a file link at the depth 1 of its page and a page
\* link at depth 2, both found on the page /d/x
C18_Witness ==
  /\ pc = "crawl"
  /\ \E k \in 1..Len(queue) :
        queue[k] = [url |-> U_PDF, depth |-> 1, parent_url |-> U_X]
  /\ \E k \in 1..Len(queue) :
        queue[k] = [url |-> U_Y, depth |-> 2, parent_url |-> U_X]

(***************************************************************************)
(* The crawler's runs together with the calls of fetch_page on its own     *)
(***************************************************************************)

InitAll == Init \/ InitFetch

NextAll ==
  \/ Next
  \/ NextFetch

SpecAll == InitAll /\ [][NextAll]_vars

\* attempt k of the call fails with an error that is not retried, after
\* attempts 1..k-1 failed with a timeout or a connection error
GivesUpAt(k) ==
  /\ \A j \in 1..(k - 1) : script.gets[j].exc \in {"Timeout", "ConnectionError"}
  /\ script.gets[k].exc = "RequestException"

\* all three attempts of the call fail with a timeout or a connection error
AllTransient ==
  \A j \in 1..3 : script.gets[j].exc \in {"Timeout", "ConnectionError"}

\* fetch_page returns (None, 0, "", 0) exactly when an attempt fails with an
\* error that is not retried or all three attempts fail with retried errors;
\* the failing attempt that is not retried is its last call
AbsentCases ==
  pc = "returned" =>
    /\ result.is_none <=> (AllTransient \/ \E k \in 1..3 : GivesUpAt(k))
    /\ result.is_none => /\ result.status_code = 0
                         /\ result.content_type = <<>>
                         /\ result.content_length = 0
    /\ \A k \in 1..3 :
          GivesUpAt(k) => ops = FailedAttempts(k - 1)
                                  \o <<Event("get", script.url, k - 1, FALSE)>>

\* in the traversal, a fetch that returned None changes nothing but the
\* visited set, which gains the URL, and the queue, which loses its head
AbsentStep ==
  (FetchStep /\ ~Last(fetch_log').ok)
    => /\ Last(fetch_log').status_code = 0
       /\ Last(fetch_log').content_length = 0
       /\ pages_crawled' = pages_crawled
       /\ queue' = Tail(queue)
       /\ index_file' = index_file
       /\ files' = files
       /\ entry.url \in visited_urls'

\* a URL whose fetch returned None is visited and was fetched only once
AbsentStaysVisited ==
  \A i \in 1..Len(fetch_log) :
     ~fetch_log[i].ok
       => /\ fetch_log[i].url \in visited_urls
          /\ \A j \in 1..Len(fetch_log) : fetch_log[j].url = fetch_log[i].url => j = i

\* C19: fetch_page returns (None, 0, "", 0) in two cases only: an attempt
\* fails with a request error that is not a timeout or a connection error,
\* and then no attempt and no sleep follows, or all three attempts fail with
\* timeouts or connection errors; in the traversal such a result leaves the
\* page count, the log and the rest of the queue as they are, and the URL
\* stays visited and is not fetched again
C19_AbsentFetch ==
  /\ [](AbsentCases /\ AbsentStaysVisited)
  /\ [][AbsentStep]_vars

\* C19: a fetch returned None after a page had been crawled, and its URL is
\* at the head of the queue again
C19_Witness ==
  /\ pc = "crawl"
  /\ pages_crawled > 0
  /\ queue # <<>>
  /\ entry.url \in visited_urls
  /\ \E i \in 2..Len(fetch_log) : fetch_log[i].url = entry.url /\ ~fetch_log[i].ok

\* the three conditions under which the links of a fetched page may be
\* enqueued: HTML content, no file extension in the URL, below the maximum
\* depth
MayFollow(f) ==
  /\ Contains(TEXT_HTML, f.content_type)
  /\ ~HasFileExt(f.url)
  /\ f.depth < args.depth

\* the step called save_raw and then log_metadata, and what did not fail was
\* done: the content is in the file save_raw names and the record, with that
\* path, is the last of the log
PersistedAndRecorded(f) ==
  \E k \in 2..Len(ops') :
     /\ ops'[k - 1].op = "save_raw" /\ ops'[k - 1].url = f.url
     /\ ops'[k].op = "log_metadata" /\ ops'[k].url = f.url
     /\ ops'[k].ok
          => /\ Len(index_file') = Len(index_file) + 1
             /\ Last(index_file').url = f.url
             /\ Last(index_file').status_code = f.status_code
             /\ ops'[k - 1].ok
                  => /\ Last(index_file').saved_path \in DOMAIN files'
                     /\ Len(files'[Last(index_file').saved_path]) = f.content_length
     /\ ~ops'[k].ok => index_file' = index_file

\* a step that fetched a body adds entries to the queue only under the three
\* conditions, and then after the entries that were waiting; otherwise it
\* only removes the head; in both cases, unless creating the directory fails,
\* the content is saved and recorded
FollowStep ==
  (FetchStep /\ Last(fetch_log').ok)
    => /\ ~MayFollow(Last(fetch_log')) => queue' = Tail(queue)
       /\ /\ Len(queue') >= Len(queue) - 1
          /\ SubSeq(queue', 1, Len(queue) - 1) = Tail(queue)
          /\ \A k \in Len(queue)..Len(queue') : queue'[k].parent_url = entry.url
       /\ pc' # "crashed" => PersistedAndRecorded(Last(fetch_log'))

\* with a maximum depth of 0 only the seeds are fetched
SeedsOnlyAtDepth0 ==
  args.depth = 0 =>
    \A i \in 1..Len(fetch_log) :
       /\ fetch_log[i].url = fetch_log[i].seed
       /\ fetch_log[i].parent_url = NoUrl
       /\ fetch_log[i].depth = 0

\* C20: a fetched entry adds entries to the queue only when its content type
\* contains text/html, its URL contains no file extension (in any case,
\* anywhere) and its depth is below the maximum depth; in every other case
\* it is saved and recorded and the queue only loses its head; with a maximum
\* depth of 0 only seed URLs are fetched
C20_EnqueueOnlyFromPages ==
  /\ []SeedsOnlyAtDepth0
  /\ [][FollowStep]_vars

\* C20: /d/a.PDF was served as HTML with links, below the maximum depth, and
\* was saved and recorded without a link being enqueued
C20_Witness ==
  /\ pc = "crawl"
  /\ fetch_log # <<>>
  /\ Last(fetch_log).url = U_PDF
  /\ Last(fetch_log).ok
  /\ Contains(TEXT_HTML, Last(fetch_log).content_type)
  /\ Last(fetch_log).content_length > 0
  /\ Last(fetch_log).depth < args.depth
  /\ index_file # <<>>
  /\ Last(index_file).url = U_PDF
  /\ \A k \in 1..Len(queue) : queue[k].parent_url # U_PDF

(***************************************************************************)
(* The same run twice: once with verbose off, once with verbose on         *)
(***************************************************************************)

\* the command lines of the first run, with verbose off: two seeds of one
\* site crawled one link deep, or three seeds, one of them twice, crawled
\* without following links
VerboseArgs ==
  { a \in ArgSets :
      /\ a.max_pages \in 1..MaxPagesArg
      /\ \/ read_seeds(a.seeds) = <<U_DOCS, U_X>> /\ a.depth = 1
         \/ read_seeds(a.seeds) = <<U_O, U_DOCS, U_DOCS>> /\ a.depth = 0 }

InitVerbose ==
  /\ pc = "main"
  /\ args \in VerboseArgs
  /\ seeds = <<>>
  /\ seed_idx = 1
  /\ seed_url = NoUrl
  /\ queue = <<>>
  /\ visited_urls = {}
  /\ robots_cache = EmptyFn
  /\ pages_crawled = 0
  /\ index_file = <<>>
  /\ files = EmptyFn
  /\ fetch_log = <<>>
  /\ robots_reads = <<>>
  /\ ops = <<>>
  /\ io_faults = [save |-> 0, log |-> 0]
  /\ script = NoScript
  /\ result = Absent(<<>>)
  /\ stdout = 0
  /\ pbar = NoBar
  /\ tape = [NoTape EXCEPT !.mode = "record"]
  /\ frontier = NoFrontier

\* what a run leaves behind: the visited set, the page count, the index and
\* the files
Left ==
  [visited_urls |-> visited_urls, pages_crawled |-> pages_crawled,
   index_file |-> index_file, files |-> files]

\* main has returned, or an exception has left it
Ended == pc \in {"done", "crashed", "exit_1"}

\* the program is started again on the same seeds file and an empty data
\* directory, with --verbose added to the command line
Rerun ==
  /\ Ended
  /\ tape.mode = "record"
  /\ tape' = [tape EXCEPT !.mode = "replay", !.ended = <<Left>>]
  /\ args' = [args EXCEPT !.verbose = TRUE]
  /\ pc' = "main"
  /\ seeds' = <<>>
  /\ seed_idx' = 1
  /\ seed_url' = NoUrl
  /\ queue' = <<>>
  /\ visited_urls' = {}
  /\ robots_cache' = EmptyFn
  /\ pages_crawled' = 0
  /\ index_file' = <<>>
  /\ files' = EmptyFn
  /\ fetch_log' = <<>>
  /\ robots_reads' = <<>>
  /\ ops' = <<>>
  /\ io_faults' = [save |-> 0, log |-> 0]
  /\ stdout' = 0
  /\ pbar' = NoBar
  /\ frontier' = NoFrontier
  /\ UNCHANGED <<script, result>>

NextVerbose ==
  \/ Next
  \/ Rerun

SpecVerbose == InitVerbose /\ [][NextVerbose]_vars

\* the run with verbose on is at its k-th step or at its end
Repeating == tape.mode = "replay"

\* the file system failures of one save_raw and one log_metadata
Fails(io) ==
  (IF io[1] = "ok" THEN 0 ELSE 1) + (IF io[2] = "ok" THEN 0 ELSE 1)

\* what the environment gave the recorded run it can give again at the next
\* step of the repeated run: the answer of robots.txt, what session.get does,
\* what the file system does and the delay drawn are among the answers that
\* are possible now, so the repeated run is never left without a step
Available ==
  (pc = "crawl" /\ LoopCond /\ ~Skipped) =>
    /\ \A j \in 1..Len(tape.steps) :
         LET was == tape.steps[j].choice
         IN  /\ (/\ was.reads # <<>>
                 /\ base_url_of(was.url) = base_url_of(entry.url)
                 /\ base_url_of(entry.url) \notin DOMAIN robots_cache)
                   => was.reads[1] \in RobotsNow(entry.url)
             /\ (was.gets # <<>> /\ was.url = entry.url)
                   => was.gets \in Scripts(entry.url)
             /\ (Len(was.io) = 2 /\ was.url = entry.url)
                   => /\ was.io[1] \in SaveOutcomes
                      /\ was.io[2] \in LogOutcomes
                      /\ io_faults.save + io_faults.log + Fails(was.io) <= MaxIoFaults
    /\ (pages_crawled > 0 /\ tape.draws < Len(Draws(tape.steps)))
          => Draws(tape.steps)[tape.draws + 1] \in Delays

\* C14: the run with verbose on, given what the run with verbose off was
\* given (the seeds, the pages and their links, the fetch and robots.txt
\* outcomes, the delays drawn), makes step for step the same calls (the
\* robots.txt checks, the fetches, the sleeps, the saves) and the same
\* enqueues, is never left without a step, ends after as many steps, and
\* ends with the same visited set, the same page count, the same files and
\* the same index records
C14_VerboseOnlyOutput ==
  Repeating =>
    /\ tape.same
    /\ Available
    /\ Ended => (tape.k = Len(tape.steps) + 1 /\ tape.ended = <<Left>>)

\* C14: the verbose run has ended as the quiet run did, after a read of
\* robots.txt, two fetches, a delay, and two links added to the queue in an
\* order of the environment's choice; it has printed and has no progress bar
C14_Witness ==
  /\ Repeating
  /\ pc = "done"
  /\ tape.k = Len(tape.steps) + 1
  /\ tape.ended = <<Left>>
  /\ stdout > 0
  /\ ~pbar.present
  /\ Len(fetch_log) >= 2
  /\ index_file # <<>>
  /\ \E j \in 1..Len(tape.steps) : Len(tape.steps[j].choice.order) >= 2
  /\ \E j \in 1..Len(tape.steps) : tape.steps[j].choice.reads # <<>>
  /\ \E j \in 1..Len(tape.steps) : tape.steps[j].choice.sleeps # <<>>

(***************************************************************************)
(* Runs that go on: the program takes its next step until main has ended   *)
(***************************************************************************)

\* main is not suspended for ever: again and again it has ended or takes a step
KeepsRunning == []<>Ended \/ []<><<Next>>_vars

SpecLive == Init /\ [][Next]_vars /\ KeepsRunning

\* a run without a page budget
Unbounded == ArgsValid(args) /\ args.max_pages = 0

\* crawl_seed is at the test of its while loop with an empty queue
QueueEmpty == pc = "crawl" /\ queue = <<>>

\* C21: without a page budget every run ends, and the queue of every seed
\* that is started becomes empty unless an exception ends the run first
C21_Terminates ==
  /\ Unbounded ~> Ended
  /\ (Unbounded /\ pc = "crawl") ~> (QueueEmpty \/ pc = "crashed")

\* C21: a run without a page budget has ended after it crawled a cycle: /d/
\* links to /d/x, which links back to /d/ and to itself
C21_Witness ==
  /\ Unbounded
  /\ pc = "done"
  /\ args.depth = MaxDepthArg
  /\ \E i, j \in 1..Len(fetch_log) :
       /\ fetch_log[i].url = U_DOCS /\ fetch_log[i].ok
       /\ fetch_log[j].url = U_X /\ fetch_log[j].parent_url = U_DOCS
       /\ fetch_log[j].ok /\ fetch_log[j].depth < args.depth
       /\ is_html_type(fetch_log[j].content_type)

(***************************************************************************)
(* A seed that an earlier seed's crawl has visited                         *)
(***************************************************************************)

\* crawl_seed has just been called: the queue holds the seed's own entry
SeedAtHead ==
  /\ pc = "crawl"
  /\ queue = << [url |-> seed_url, depth |-> 0, parent_url |-> NoUrl] >>

\* the step fetches nothing, checks nothing, writes nothing, counts nothing
Idle ==
  /\ ops' = <<>>
  /\ UNCHANGED <<visited_urls, robots_cache, robots_reads, fetch_log, pages_crawled,
                 index_file, files>>

\* the crawl of a seed whose URL is visited is two steps: its entry is
\* popped, and crawl_seed returns on the empty queue
VisitedSeedStep ==
  /\ (SeedAtHead /\ seed_url \in visited_urls)
        => /\ pc' = "crawl"
           /\ queue' = <<>>
           /\ Idle
  /\ (pc = "crawl" /\ queue = <<>>)
        => /\ pc' = "for"
           /\ Idle

\* the fetch found a page whose links crawl_seed goes through
Expanded(f) ==
  /\ f.ok
  /\ is_html_type(f.content_type)
  /\ ~is_file_url(f.url)
  /\ f.depth < args.depth

\* a URL is fetched as a link only from a page that was expanded in the crawl
\* of the same seed; so the links of a seed that was visited without being
\* expanded (its fetch failed, or it was met at the maximum depth, or as a
\* file) are never fetched through it
OnlyThroughExpanded ==
  \A i \in 1..Len(fetch_log) :
    fetch_log[i].parent_url # NoUrl
      => \E j \in 1..(i - 1) :
           /\ fetch_log[j].url = fetch_log[i].parent_url
           /\ fetch_log[j].seed = fetch_log[i].seed
           /\ Expanded(fetch_log[j])

\* C22: the visited set is shared by the seeds of a run: the crawl of a seed
\* whose URL is already visited pops its entry and returns, with no robots.txt
\* check, fetch, enqueue or record; and no URL is fetched as the link of a
\* page that was not expanded, so what only that seed leads to is not fetched
C22_VisitedSeedSkipped == []OnlyThroughExpanded /\ [][VisitedSeedStep]_vars

\* C22: a run of three seeds has ended; the fetch of the second, /d/, failed,
\* the third is /d/ again, and /d/x, one link from it and within the depth
\* bound, was never fetched
C22_Witness ==
  /\ pc = "done"
  /\ seeds = <<U_O, U_DOCS, U_DOCS>>
  /\ seed_idx > Len(seeds)
  /\ args.depth >= 1
  /\ args.max_pages = 0
  /\ \E i \in 1..Len(fetch_log) : fetch_log[i].url = U_DOCS /\ ~fetch_log[i].ok
  /\ \A i \in 1..Len(fetch_log) : fetch_log[i].url # U_X

(***************************************************************************)
(* The order in which crawl_seed takes the entries of its queue            *)
(***************************************************************************)

\* the step takes the head of the queue, leaves the entries behind it in
\* their order and puts what it adds after them; a fetch is made for the
\* entry taken
FifoStep ==
  (pc = "crawl" /\ LoopCond) =>
    /\ Len(queue') >= Len(queue) - 1
    /\ SubSeq(queue', 1, Len(queue) - 1) = Tail(queue)
    /\ FetchStep => /\ Last(fetch_log').url = Head(queue).url
                    /\ Last(fetch_log').depth = Head(queue).depth
                    /\ Last(fetch_log').parent_url = Head(queue).parent_url

\* the entry taken is no shallower than the last entry of its kind (page or
\* file) that was taken before it in the crawl of the same seed
PopStep ==
  (pc = "crawl" /\ LoopCond) =>
    Head(queue).depth >= frontier.popped[KindOf(Head(queue).url)]

\* the entries of a kind wait in the queue in non-decreasing depth
QueueSorted ==
  \A i, j \in 1..Len(queue) :
    (i < j /\ KindOf(queue[i].url) = KindOf(queue[j].url))
      => queue[i].depth <= queue[j].depth

\* the record of the smallest depths covers every entry that waits
MadeCoversQueue ==
  pc = "crawl" =>
    \A i \in 1..Len(queue) :
      /\ queue[i].url \in DOMAIN frontier.made
      /\ frontier.made[queue[i].url] <= queue[i].depth

\* a URL fetched in the crawl of the seed was fetched at the smallest depth
\* at which it was ever put in the queue in that crawl
FetchedAtLeast ==
  \A i \in 1..Len(fetch_log) :
    (fetch_log[i].seed = seed_url /\ fetch_log[i].url \in DOMAIN frontier.made)
      => fetch_log[i].depth = frontier.made[fetch_log[i].url]

\* C23: in the crawl of one seed the queue is first in, first out; pages are
\* taken from it in non-decreasing depth and so are files; the entries of
\* each kind wait in non-decreasing depth; and every URL that is fetched is
\* fetched at the smallest depth of all the entries made for it in that crawl
C23_BreadthFirst ==
  /\ [](QueueSorted /\ MadeCoversQueue /\ FetchedAtLeast)
  /\ [][FifoStep /\ PopStep]_vars

\* C23: /d/a.PDF was put in the queue twice before it was first taken, at
\* depth 0 by the seed's page and at depth 1 by /d/x; it was fetched at depth
\* 0 and its second entry still waits
C23_Witness ==
  /\ pc = "crawl"
  /\ seed_url = U_DOCS
  /\ \E i \in 1..Len(fetch_log) :
       /\ fetch_log[i].url = U_PDF
       /\ fetch_log[i].seed = seed_url
       /\ fetch_log[i].depth = 0
  /\ \E i \in 1..Len(queue) : queue[i].url = U_PDF /\ queue[i].depth = 1
  /\ frontier.made[U_PDF] = 0

=============================================================================
